---- MODULE Spec2Model ----
(***************************************************************************)
(* SuperTracery: the batch tracking pipeline (supertracery.py), the        *)
(* tracker helpers (tracker.py) and the preview server                     *)
(* (preview_server.py).                                                    *)
(*                                                                         *)
(* Conventions of the model                                                *)
(*  - A frame is one row of GridW pixels (height 1).  A mask is a record   *)
(*    [present, px]: px is the set of x whose mask value is 1; present is  *)
(*    FALSE for Python's None ("absent"), which is distinct from the       *)
(*    present all-zero mask.                                               *)
(*  - Pixel coordinates and motion vectors (rounded to 2 decimals by the   *)
(*    code) are integers in hundredths; avg_luma is in 1/10000; time is in *)
(*    1/1000000; confidence is an exact fraction <<num, den>>.             *)
(*  - round(v, nd) on a float is modelled as a choice among the nearest    *)
(*    representable results: an exact tie may go either way, because which *)
(*    way depends on the binary value of the float.                        *)
(*  - Optical flow is horizontal, per pixel, in half pixels.               *)
(*  - INFO lines are not modelled; PROGRESS, ERROR and DONE lines are.     *)
(***************************************************************************)
EXTENDS Integers, Sequences, FiniteSets, TLC

VARIABLES
    \* configuration and environment of one batch run
    total_frames,   \* len(frame_paths)
    readable,       \* readable[i]: cv2.imread(frame_paths[i]) is not None
    frame0,         \* gray values of the first frame, one per pixel
    comp,           \* <<comp_width, comp_height>>
    click_points,   \* sequence of [x, y, object_id]
    \* _model_cache, as the outcome of the one load attempt per predictor
    imgLoad,        \* image predictor: "unloaded" or a load outcome
    vidLoad,        \* video predictor: "unloaded" or a load outcome
    \* run_segment_and_track and the functions it calls
    pc,
    segSource,      \* which branch segment_single_frame took
    propSource,     \* which branch propagate_masks took
    initial_masks,
    all_masks,
    fi,             \* loop index of propagation
    prev_gray,      \* index of the frame held in prev_gray
    flowLog,        \* flow computations done: [step, prev, curr, still];
                    \* still: the field computed was zero at every pixel
    todo,           \* object ids the analysis loop still has to process
    frame_idx,
    frames,         \* obj_data["frames"] of the object being analysed
    prev_centroid,
    results,        \* results["objects"]
    written,        \* results.json has been written
    stdout,         \* PROGRESS / ERROR / DONE lines printed so far
    \* smooth_motion_vectors called on its own
    smoothIn, smoothWin, smoothOut,
    \* _mask_to_polygon called on its own
    contourLen,     \* vertices of the largest contour, 0 when there is none
    max_points,
    attempts,       \* iterations of the approximation loop done
    epsilonExp,     \* epsilon is 2.0 * 1.5^epsilonExp
    approxLen,      \* len(approx) of the latest approximation
    polygon,
    \* preview_server.main
    input,          \* the lines stdin will deliver
    rd,             \* lines read so far
    cur,            \* the stripped line being handled
    responses,      \* lines printed: [kind, line]
    \* _fallback_segment / segment_single_frame called on their own
    seeds,          \* the (seed_x, seed_y) of each point handled so far
    grown,          \* the mask grown for each point handled so far
    \* supertracery.main
    mode,           \* config["mode"] of the run, "none" when main is not running
    saved           \* object ids whose mask_<id>.png run_segment_only wrote

vars == <<total_frames, readable, frame0, comp, click_points, imgLoad, vidLoad,
          pc, segSource, propSource, initial_masks, all_masks, fi, prev_gray,
          flowLog, todo, frame_idx, frames, prev_centroid, results, written,
          stdout, smoothIn, smoothWin, smoothOut, contourLen, max_points,
          attempts, epsilonExp, approxLen, polygon,
          input, rd, cur, responses, seeds, grown, mode, saved>>

pipelineCfg == <<total_frames, readable, frame0, comp, click_points>>
smoothVars == <<smoothIn, smoothWin, smoothOut>>
polyVars == <<contourLen, max_points, attempts, epsilonExp, approxLen, polygon>>
serverVars == <<input, rd, cur, responses>>
segVars == <<seeds, grown>>
mainVars == <<mode, saved>>
runVars == <<imgLoad, vidLoad, segSource, propSource, initial_masks, all_masks,
             fi, prev_gray, flowLog, todo, frame_idx, frames, prev_centroid,
             results, written, stdout>>

----------------------------------------------------------------------------
(* Bounds of the model *)

MaxFrames == 3
GridW == 3
MaxClicks == 2
MaxTrackLen == 5
MaxWindow == 3
MaxContour == 3
MaxCap == 2
MaxLines == 3
SegW == 5
MainMaxFrames == 2
MainMaxClicks == 1

(* Constants of the program *)

FloodTolerance == 30
MorphRadius == 2
FramesPerSecond == 30
SmoothWindow == 3
PolygonAttempts == 20
ProgressEvery == 10

----------------------------------------------------------------------------
(* Arithmetic *)

Abs(v) == IF v < 0 THEN -v ELSE v
Min(a, b) == IF a <= b THEN a ELSE b
Max(a, b) == IF a >= b THEN a ELSE b

RECURSIVE SetSum(_)
SetSum(S) == IF S = {} THEN 0 ELSE LET e == CHOOSE e \in S : TRUE IN e + SetSum(S \ {e})

RECURSIVE WeightedSum(_, _)
WeightedSum(S, w) ==
    IF S = {} THEN 0 ELSE LET e == CHOOSE e \in S : TRUE IN w[e] + WeightedSum(S \ {e}, w)

\* round(num / den, nd), in units of the last kept decimal: the integers
\* nearest to num / den (two of them on an exact tie).  den > 0.
RoundSet(num, den) ==
    {q \in {num \div den, (num \div den) + 1} : 2 * Abs(num - q * den) <= den}

----------------------------------------------------------------------------
(* Frames and masks *)

Pixels == 0 .. (GridW - 1)
FrameW == GridW
FrameH == 1

None == [present |-> FALSE, px |-> {}]
MaskOf(S) == [present |-> TRUE, px |-> S]

\* gray value of pixel x of frame i: the first frame's content, scrolling
GrayAt(i, x) == frame0[(x + i) % GridW]

\* the first frames the pipeline is run on: a dark pixel left of a bright area
Rows == {[x \in Pixels |-> IF x = 0 THEN 40 ELSE 200]}

\* the click lists the pipeline is run on: the first n of a list of clicks that
\* alternate between the two objects, some of them outside the frame
ClickAt(k) ==
    [x |-> IF k % 2 = 0 THEN GridW + k ELSE k - 2,
     y |-> IF k % 2 = 0 THEN -1 ELSE 0,
     object_id |-> (k - 1) % 2]
ClickPoints == {ClickAt(k) : k \in 1 .. MaxClicks}
ClickSeqs == {[k \in 1 .. n |-> ClickAt(k)] : n \in 0 .. MaxClicks}
Canvases == {<<0, 0>>, <<40, 50>>}

\* masks[key] = value on a Python dict
AssignKeyMutant(d, k, v) ==
    [x \in (DOMAIN d) \cup {k} |-> IF x \in DOMAIN d THEN d[x] ELSE v]
AssignKey(d, k, v) == [x \in (DOMAIN d) \cup {k} |-> IF x = k THEN v ELSE d[x]]
EmptyDict == [x \in {} |-> None]

RECURSIVE SortedSeq(_)
SortedSeq(S) ==
    IF S = {} THEN <<>>
    ELSE LET m == CHOOSE m \in S : \A o \in S : m <= o IN <<m>> \o SortedSeq(S \ {m})

----------------------------------------------------------------------------
(* Model loading: get_sam2_predictor / get_sam2_image_predictor *)

LoadOutcomes == {"import_error", "large", "small", "both_failed"}

\* what the load leaves in _model_cache and returns
PredictorOfMutant(outcome) ==
    IF outcome = "import_error" THEN "None"
    ELSE IF outcome = "large" THEN "large"
    ELSE "small"
PredictorOf(outcome) ==
    IF outcome = "import_error" THEN "None"
    ELSE IF outcome = "large" THEN "large"
    ELSE IF outcome = "small" THEN "small"
    ELSE "None"

----------------------------------------------------------------------------
(* _fallback_segment *)

ClampMutant(v, hi) == Min(Max(v, 0), hi)
Clamp(v, hi) == Min(Max(v, 0), hi - 1)

\* h, w = gray.shape
Width(row) == Cardinality(DOMAIN row)

\* cv2.floodFill, FLOODFILL_FIXED_RANGE: the connected pixels whose gray value
\* is within the tolerance of the SEED's value
FloodFill(row, seed) ==
    {p \in DOMAIN row : \A q \in DOMAIN row :
        (Min(p, seed) <= q /\ q <= Max(p, seed)) => Abs(row[q] - row[seed]) <= FloodTolerance}

\* the 5x5 elliptical kernel restricted to the one row of the frame
\* (px is the set of pixels of the image)
Dilate(S, px) == {p \in px : \E q \in S : Abs(p - q) <= MorphRadius}
Erode(S, px) == {p \in px : \A q \in px : Abs(p - q) <= MorphRadius => q \in S}
MorphClose(S, px) == Erode(Dilate(S, px), px)
MorphOpen(S, px) == Dilate(Erode(S, px), px)

\* seed_x and seed_y
SeedOf(row, pt) == Clamp(pt.x, Width(row))
SeedYOf(pt) == Clamp(pt.y, FrameH)

FallbackMaskOf(row, pt) ==
    MaskOf(MorphOpen(MorphClose(FloodFill(row, SeedOf(row, pt)), DOMAIN row), DOMAIN row))

RECURSIVE FallbackSegmentLoop(_, _, _, _)
FallbackSegmentLoop(masks, row, pts, k) ==
    IF k > Len(pts) THEN masks
    ELSE FallbackSegmentLoop(AssignKey(masks, pts[k].object_id, FallbackMaskOf(row, pts[k])),
                             row, pts, k + 1)

FallbackSegment(row, pts) == FallbackSegmentLoop(EmptyDict, row, pts, 1)

\* the learned image predictor: the best mask of a point is the network's
\* choice; the model lets it be the clicked pixel (clamped into the frame)
SamSegMasks(pt) == {MaskOf({Clamp(pt.x, FrameW)})}

\* the learned video predictor: the mask it reports for frame i, when it
\* reports one, is a blob moving one pixel per frame, or (at frame 1) nothing
SamPropMasks(i) == {MaskOf({i % GridW})} \cup (IF i = 1 THEN {MaskOf({})} ELSE {})

\* the best masks predictor.predict can return for the points, one per point
SamBest(pts) ==
    {b \in [1 .. Len(pts) -> UNION {SamSegMasks(p) : p \in ClickPoints}] :
        \A k \in 1 .. Len(pts) : b[k] \in SamSegMasks(pts[k])}

RECURSIVE SamSegmentLoop(_, _, _, _)
SamSegmentLoop(masks, pts, best, k) ==
    IF k > Len(pts) THEN masks
    ELSE SamSegmentLoop(AssignKey(masks, pts[k].object_id, best[k]), pts, best, k + 1)

----------------------------------------------------------------------------
(* _fallback_propagate *)

FlowVals == {-1, 0, 2}

\* cv2.remap with INTER_LINEAR and a zero border, sampled at x + flow[x];
\* the result is in halves (0, 1 or 2)
Bit(S, p) == IF p \in S THEN 1 ELSE 0
Sample2(S, p2) ==
    IF p2 % 2 = 0 THEN 2 * Bit(S, p2 \div 2)
    ELSE Bit(S, (p2 - 1) \div 2) + Bit(S, (p2 + 1) \div 2)

\* (warped > 0.5).astype(np.uint8)
WarpMaskMutant(mask, flow) ==
    MaskOf({x \in Pixels : Sample2(mask.px, 2 * (x + 1) + flow[x]) > 1})
WarpMask(mask, flow) == MaskOf({x \in Pixels : Sample2(mask.px, 2 * x + flow[x]) > 1})

\* the mask an unreadable frame gets
HeldMaskMutant(seq, i) == seq[0]
HeldMask(seq, i) == seq[i - 1]

----------------------------------------------------------------------------
(* _mask_to_polygon on the masks of the pipeline *)

\* the external contours of a one-row mask: its maximal runs a..b
Runs(S) ==
    {r \in S \X S : /\ r[1] <= r[2]
                    /\ \A q \in r[1] .. r[2] : q \in S
                    /\ (r[1] - 1) \notin S
                    /\ (r[2] + 1) \notin S}

\* CHAIN_APPROX_SIMPLE keeps the end points of a straight run
RunContour(r) == IF r[1] = r[2] THEN << <<r[1], 0>> >> ELSE << <<r[1], 0>>, <<r[2], 0>> >>

\* every contour of a one-row mask has area 0, so max(contours, key=contourArea)
\* is whichever contour OpenCV lists first; a contour of at most two vertices
\* is accepted by the first approximation (2 <= max_points = 64)
MaskPolygons(mask) ==
    IF mask.px = {} THEN {<<>>} ELSE {RunContour(r) : r \in Runs(mask.px)}

----------------------------------------------------------------------------
(* analyze_frame and the per-frame part of run_segment_and_track *)

NoCentroid == [some |-> FALSE, at |-> <<0, 0>>]
SomeCentroid(c) == [some |-> TRUE, at |-> c]

MinOf(S) == CHOOSE m \in S : \A o \in S : m <= o
MaxOf(S) == CHOOSE m \in S : \A o \in S : m >= o

Centroids(S) ==
    IF S # {} THEN {<<cx, 0>> : cx \in RoundSet(100 * SetSum(S), Cardinality(S))}
    ELSE {<<FrameW * 50, FrameH * 50>>}

BBox(S) == IF S # {} THEN <<MinOf(S), 0, MaxOf(S) + 1, 1>> ELSE <<0, 0, FrameW, FrameH>>

AvgLumas(i, S) ==
    IF S # {}
    THEN RoundSet(10000 * WeightedSum(S, [x \in Pixels |-> GrayAt(i, x)]), 255 * Cardinality(S))
    ELSE {0}

\* analyze_frame lines 257-264
MotionVectorMutant(c, prev) ==
    IF prev.some THEN <<prev.at[1] - c[1], prev.at[2] - c[2]>> ELSE <<0, 0>>
MotionVector(c, prev) ==
    IF prev.some THEN <<c[1] - prev.at[1], c[2] - prev.at[2]>> ELSE <<0, 0>>

\* round(frame_idx / 30.0, 6)
Times(i) == RoundSet(i * 1000000, FramesPerSecond)

\* float(min(1.0, area / max(1, comp_width * comp_height * 0.001)))
ConfidenceMutant(area, cw, ch) == <<area * 1000, Max(1000, cw * ch)>>
Confidence(area, cw, ch) ==
    IF area * 1000 >= Max(1000, cw * ch) THEN <<1, 1>>
    ELSE <<area * 1000, Max(1000, cw * ch)>>

\* the entries analyze_frame and lines 104-108 can build for a present mask
AnalyzeFrame(i, mask, prev) ==
    {[frame_index |-> i,
      time |-> t,
      centroid |-> c,
      bbox |-> BBox(mask.px),
      polygon |-> poly,
      area |-> Cardinality(mask.px),
      avg_luma |-> luma,
      motion_vector |-> MotionVector(c, prev),
      confidence |-> Confidence(Cardinality(mask.px), comp[1], comp[2])] :
        t \in Times(i), c \in Centroids(mask.px),
        poly \in MaskPolygons(mask), luma \in AvgLumas(i, mask.px)}

\* the entry appended for an absent mask
DefaultFrameMutant(i) ==
    {[frame_index |-> i,
      time |-> t,
      centroid |-> <<FrameW * 50, FrameH * 50>>,
      bbox |-> <<0, 0, FrameW, FrameH>>,
      polygon |-> <<>>,
      area |-> 0,
      avg_luma |-> 0,
      motion_vector |-> <<0, 0>>,
      confidence |-> <<0, 1>>] : t \in Times(i)}
DefaultFrame(i) ==
    {[frame_index |-> i,
      time |-> t,
      centroid |-> <<comp[1] * 50, comp[2] * 50>>,
      bbox |-> <<0, 0, comp[1], comp[2]>>,
      polygon |-> <<>>,
      area |-> 0,
      avg_luma |-> 0,
      motion_vector |-> <<0, 0>>,
      confidence |-> <<0, 1>>] : t \in Times(i)}

\* what the loop does with the frames list when the mask is absent
AbsentAppendMutant(fs, fd) == fs
AbsentAppend(fs, fd) == Append(fs, fd)

----------------------------------------------------------------------------
(* smooth_motion_vectors *)

RECURSIVE WindowSum(_, _, _, _)
WindowSum(fd, j, end, c) ==
    IF j >= end THEN 0 ELSE fd[j + 1].motion_vector[c] + WindowSum(fd, j + 1, end, c)

\* the loop body for index i on the list as it is NOW (already smoothed below i)
RECURSIVE SmoothFrom(_, _, _)
SmoothFrom(fd, i, half) ==
    IF i >= Len(fd) THEN {fd}
    ELSE LET start == Max(0, i - half)
             end == Min(Len(fd), i + half + 1)
             count == end - start
         IN IF count > 0
            THEN UNION {SmoothFrom([fd EXCEPT ![i + 1].motion_vector = <<vx, vy>>], i + 1, half) :
                          vx \in RoundSet(WindowSum(fd, start, end, 1), count),
                          vy \in RoundSet(WindowSum(fd, start, end, 2), count)}
            ELSE SmoothFrom(fd, i + 1, half)

\* the lists smooth_motion_vectors(frames_data, window) can return
SmoothMotionVectorsMutant(fd, window) == SmoothFrom(fd, 0, window \div 2)
SmoothMotionVectors(fd, window) ==
    IF Len(fd) < window THEN {fd} ELSE SmoothFrom(fd, 0, window \div 2)

----------------------------------------------------------------------------
(* run_segment_and_track, called by main in mode "segment_and_track" *)

ProgressLine(n) == [kind |-> "PROGRESS", n |-> n]
ErrorLine == [kind |-> "ERROR", n |-> 0]
DoneLine == [kind |-> "DONE", n |-> 0]

IdleSmooth == smoothIn = <<>> /\ smoothWin = 0 /\ smoothOut = <<>>
IdlePoly ==
    /\ contourLen = 0 /\ max_points = 0 /\ attempts = 0 /\ epsilonExp = 0
    /\ approxLen = 0 /\ polygon = <<>>
IdleServer == input = <<>> /\ rd = 0 /\ cur = "" /\ responses = <<>>
IdleSegment == seeds = <<>> /\ grown = <<>>
IdleMain == mode = "none" /\ saved = {}
IdleRun ==
    /\ imgLoad = "unloaded" /\ vidLoad = "unloaded"
    /\ segSource = "none" /\ propSource = "none"
    /\ initial_masks = EmptyDict /\ all_masks = EmptyDict
    /\ fi = 0 /\ prev_gray = -1 /\ flowLog = {}
    /\ todo = <<>> /\ frame_idx = 0 /\ frames = <<>> /\ prev_centroid = NoCentroid
    /\ results = <<>> /\ written = FALSE /\ stdout = <<>>
IdleCfg ==
    /\ total_frames = 0 /\ readable = <<>> /\ frame0 = [x \in Pixels |-> 0]
    /\ comp = <<0, 0>> /\ click_points = <<>>

Init ==
    /\ total_frames \in 0 .. MaxFrames
    /\ readable \in [0 .. (total_frames - 1) -> BOOLEAN]
    /\ frame0 \in Rows
    /\ comp \in Canvases
    /\ click_points \in ClickSeqs
    /\ pc = "start"
    /\ mode = "segment_and_track" /\ saved = {}
    /\ IdleRun /\ IdleSmooth /\ IdlePoly /\ IdleServer /\ IdleSegment

others == <<smoothVars, polyVars, serverVars, segVars, mainVars, pipelineCfg>>

\* an exception leaves run_segment_and_track; main prints ERROR and exits
RaiseMutant ==
    /\ pc' = "failed"
    /\ stdout' = stdout
Raise ==
    /\ pc' = "failed"
    /\ stdout' = Append(stdout, ErrorLine)

\* lines 50-57: no frames, print ERROR and return
LoadFrames ==
    /\ pc = "start"
    /\ IF total_frames = 0
       THEN pc' = "returned" /\ stdout' = Append(stdout, ErrorLine)
       ELSE pc' = "segment" /\ stdout' = stdout
    /\ UNCHANGED <<imgLoad, vidLoad, segSource, propSource, initial_masks, all_masks,
                   fi, prev_gray, flowLog, todo, frame_idx, frames, prev_centroid,
                   results, written, others>>

\* line 63: `if not initial_masks`
NoMasksMutant(masks) == FALSE
NoMasks(masks) == DOMAIN masks = {}

\* lines 61-65 and segment_single_frame
SegmentFirstFrame ==
    /\ pc = "segment"
    /\ \E outcome \in LoadOutcomes :
        /\ imgLoad' = outcome
        /\ IF ~readable[0]
           THEN \* cv2.cvtColor(None) raises before either branch
                Raise /\ UNCHANGED <<segSource, initial_masks>>
           ELSE \E best \in SamBest(click_points) :
                  LET sam == PredictorOf(outcome) # "None"
                      masks == IF sam THEN SamSegmentLoop(EmptyDict, click_points, best, 1)
                               ELSE FallbackSegment(frame0, click_points)
                  IN /\ segSource' = IF sam THEN "sam2" ELSE "fallback"
                     /\ initial_masks' = masks
                     /\ IF NoMasks(masks)
                        THEN pc' = "returned" /\ stdout' = Append(stdout, ErrorLine)
                        ELSE pc' = "propagate" /\ stdout' = stdout
    /\ UNCHANGED <<vidLoad, propSource, all_masks, fi, prev_gray, flowLog, todo,
                   frame_idx, frames, prev_centroid, results, written, others>>

AllNone(ids) == [o \in ids |-> [i \in 0 .. (total_frames - 1) |-> None]]

\* line 77 onwards starts: the loop over sorted(all_masks.keys())
EnterAnalysis(am) ==
    /\ pc' = "analyze"
    /\ todo' = SortedSeq(DOMAIN am)
    /\ frame_idx' = 0
    /\ frames' = <<>>
    /\ prev_centroid' = NoCentroid

\* _fallback_propagate lines 362-365: a list of None per object, its first
\* entry the initial mask
FallbackInitMutant(init) == AllNone(DOMAIN init)
FallbackInit(init) ==
    [o \in DOMAIN init |-> [AllNone(DOMAIN init)[o] EXCEPT ![0] = init[o]]]

\* propagate_masks lines 168-178 (learned model) or 212 and
\* _fallback_propagate lines 362-367
PropagateBegin ==
    /\ pc = "propagate"
    /\ \E outcome \in LoadOutcomes :
        /\ vidLoad' = outcome
        /\ IF PredictorOf(outcome) # "None"
           THEN /\ propSource' = "sam2"
                /\ all_masks' = AllNone(DOMAIN initial_masks)
                /\ pc' = "sam_propagate"
                /\ UNCHANGED <<prev_gray, fi, todo, frame_idx, frames, prev_centroid>>
           ELSE /\ propSource' = "fallback"
                /\ all_masks' = FallbackInit(initial_masks)
                /\ prev_gray' = 0
                /\ fi' = 1
                /\ IF total_frames > 1
                   THEN pc' = "fb_progress" /\ UNCHANGED <<todo, frame_idx, frames, prev_centroid>>
                   ELSE EnterAnalysis(all_masks')
    /\ UNCHANGED <<imgLoad, segSource, initial_masks, flowLog, results, written, stdout, others>>

\* lines 195-200: one item of predictor.propagate_in_video, which yields the
\* frames in order; the objects it reports a mask for are the library's choice
SamYield ==
    /\ pc = "sam_propagate"
    /\ fi < total_frames
    /\ stdout' = Append(stdout, ProgressLine(fi + 1))
    /\ \E cells \in [DOMAIN all_masks -> SamPropMasks(fi) \cup {None}] :
         all_masks' = [o \in DOMAIN all_masks |->
                         IF cells[o].present THEN [all_masks[o] EXCEPT ![fi] = cells[o]]
                         ELSE all_masks[o]]
    /\ fi' = fi + 1
    /\ IF fi + 1 = total_frames
       THEN EnterAnalysis(all_masks')
       ELSE UNCHANGED <<pc, todo, frame_idx, frames, prev_centroid>>
    /\ UNCHANGED <<imgLoad, vidLoad, segSource, propSource, initial_masks, prev_gray,
                   flowLog, results, written, others>>

\* line 370
FallbackProgress ==
    /\ pc = "fb_progress"
    /\ stdout' = Append(stdout, ProgressLine(fi + 1))
    /\ pc' = "fb_read"
    /\ UNCHANGED <<imgLoad, vidLoad, segSource, propSource, initial_masks, all_masks,
                   fi, prev_gray, flowLog, todo, frame_idx, frames, prev_centroid,
                   results, written, others>>

FallbackNext(am) ==
    /\ fi' = fi + 1
    /\ IF fi + 1 < total_frames
       THEN pc' = "fb_progress" /\ UNCHANGED <<todo, frame_idx, frames, prev_centroid>>
       ELSE EnterAnalysis(am)

\* lines 372-377: the frame is unreadable
FallbackHold ==
    /\ pc = "fb_read"
    /\ ~readable[fi]
    /\ all_masks' = [o \in DOMAIN all_masks |->
                       [all_masks[o] EXCEPT ![fi] = HeldMask(all_masks[o], fi)]]
    /\ FallbackNext(all_masks')
    /\ UNCHANGED <<imgLoad, vidLoad, segSource, propSource, initial_masks, prev_gray,
                   flowLog, results, written, stdout, others>>

\* line 405: prev_gray = curr_gray, at the end of an iteration that read frame i
PrevGrayAfterMutant(prev, i) == prev
PrevGrayAfter(prev, i) == i

\* lines 379-405: flow from prev_gray to the frame just read, warp, threshold
FallbackWarp ==
    /\ pc = "fb_read"
    /\ readable[fi]
    /\ \E flow \in [Pixels -> FlowVals] :
         /\ all_masks' = [o \in DOMAIN all_masks |->
                            [all_masks[o] EXCEPT ![fi] =
                               IF ~all_masks[o][fi - 1].present THEN MaskOf({})
                               ELSE WarpMask(all_masks[o][fi - 1], flow)]]
         /\ flowLog' = flowLog \cup {[step |-> fi, prev |-> prev_gray, curr |-> fi,
                                      still |-> \A x \in Pixels : flow[x] = 0]}
    /\ prev_gray' = PrevGrayAfter(prev_gray, fi)
    /\ FallbackNext(all_masks')
    /\ UNCHANGED <<imgLoad, vidLoad, segSource, propSource, initial_masks,
                   results, written, stdout, others>>

unchangedByAnalysis ==
    <<imgLoad, vidLoad, segSource, propSource, initial_masks, all_masks, fi,
      prev_gray, flowLog, others>>

CurrentMask == all_masks[Head(todo)][frame_idx]

\* lines 88-101
AnalyzeAbsent ==
    /\ pc = "analyze" /\ todo # <<>> /\ frame_idx < total_frames
    /\ ~CurrentMask.present
    /\ \E fd \in DefaultFrame(frame_idx) : frames' = AbsentAppend(frames, fd)
    /\ frame_idx' = frame_idx + 1
    /\ UNCHANGED <<pc, todo, prev_centroid, results, written, stdout, unchangedByAnalysis>>

\* lines 103-114
AnalyzePresent ==
    /\ pc = "analyze" /\ todo # <<>> /\ frame_idx < total_frames
    /\ CurrentMask.present
    /\ readable[frame_idx]
    /\ \E fd \in AnalyzeFrame(frame_idx, CurrentMask, prev_centroid) :
        /\ frames' = Append(frames, fd)
        /\ prev_centroid' = SomeCentroid(fd.centroid)
    /\ stdout' = IF frame_idx % ProgressEvery = 0
                 THEN Append(stdout, ProgressLine(frame_idx + 1)) ELSE stdout
    /\ frame_idx' = frame_idx + 1
    /\ UNCHANGED <<pc, todo, results, written, unchangedByAnalysis>>

\* analyze_frame lines 222 and 250: cv2.cvtColor of an unreadable frame raises
AnalyzeRaises ==
    /\ pc = "analyze" /\ todo # <<>> /\ frame_idx < total_frames
    /\ CurrentMask.present
    /\ ~readable[frame_idx]
    /\ Raise
    /\ UNCHANGED <<todo, frame_idx, frames, prev_centroid, results, written,
                   unchangedByAnalysis>>

\* lines 116-119
SmoothAndAppend ==
    /\ pc = "analyze" /\ todo # <<>> /\ frame_idx = total_frames
    /\ \E smoothed \in SmoothMotionVectors(frames, SmoothWindow) :
         results' = Append(results, [object_id |-> Head(todo), frames |-> smoothed])
    /\ todo' = Tail(todo)
    /\ frame_idx' = 0
    /\ frames' = <<>>
    /\ prev_centroid' = NoCentroid
    /\ UNCHANGED <<pc, written, stdout, unchangedByAnalysis>>

\* lines 121-127
WriteResults ==
    /\ pc = "analyze" /\ todo = <<>>
    /\ written' = TRUE
    /\ stdout' = Append(stdout, DoneLine)
    /\ pc' = "done"
    /\ UNCHANGED <<todo, frame_idx, frames, prev_centroid, results, unchangedByAnalysis>>

Next ==
    \/ LoadFrames
    \/ SegmentFirstFrame
    \/ PropagateBegin
    \/ SamYield
    \/ FallbackProgress
    \/ FallbackHold
    \/ FallbackWarp
    \/ AnalyzeAbsent
    \/ AnalyzePresent
    \/ AnalyzeRaises
    \/ SmoothAndAppend
    \/ WriteResults

Spec == Init /\ [][Next]_vars

----------------------------------------------------------------------------
(* smooth_motion_vectors on its own: SpecSmooth *)

MotionValues == {<<0, 0>>, <<200, 0>>, <<400, -100>>}

\* a track entry whose other fields differ from index to index
SmoothEntry(k, mv) ==
    [frame_index |-> k - 1,
     time |-> CHOOSE t \in Times(k - 1) : TRUE,
     centroid |-> <<100 * k, 0>>,
     bbox |-> <<k - 1, 0, k, 1>>,
     polygon |-> << <<k - 1, 0>> >>,
     area |-> 1,
     avg_luma |-> 1000 * k,
     motion_vector |-> mv,
     confidence |-> <<1, 1>>]

SmoothInputs ==
    UNION {{[k \in 1 .. n |-> SmoothEntry(k, m[k])] : m \in [1 .. n -> MotionValues]} :
             n \in 0 .. MaxTrackLen}

InitSmooth ==
    /\ smoothIn \in SmoothInputs
    /\ smoothWin \in 1 .. MaxWindow
    /\ smoothOut = <<>>
    /\ pc = "smooth_call"
    /\ IdleCfg /\ IdleRun /\ IdlePoly /\ IdleServer /\ IdleSegment /\ IdleMain

SmoothCall ==
    /\ pc = "smooth_call"
    /\ \E out \in SmoothMotionVectors(smoothIn, smoothWin) : smoothOut' = out
    /\ pc' = "smooth_ret"
    /\ UNCHANGED <<smoothIn, smoothWin, pipelineCfg, runVars, polyVars, serverVars,
                   segVars, mainVars>>

SpecSmooth == InitSmooth /\ [][SmoothCall]_vars

----------------------------------------------------------------------------
(* _mask_to_polygon on its own: SpecPoly *)

\* cv2.approxPolyDP returns some n >= 1 vertices of the contour
ApproxPoints(n) == [k \in 1 .. n |-> <<k, 0>>]

\* approx.squeeze(): an (n,1,2) array becomes (n,2), or a bare pair when n = 1
Squeeze(approx) == [bare |-> Len(approx) = 1, pts |-> approx]

\* lines 293-296: tolist(), a bare pair is wrapped into a one-element list
ToPolygon(sq) == IF sq.bare THEN <<sq.pts[1]>> ELSE sq.pts

\* line 289
AcceptedMutant(n, cap) == n < cap
Accepted(n, cap) == n <= cap

InitPoly ==
    /\ contourLen \in 0 .. MaxContour
    /\ max_points \in 1 .. MaxCap
    /\ attempts = 0 /\ epsilonExp = 0 /\ approxLen = 0 /\ polygon = <<>>
    /\ pc = "poly_start"
    /\ IdleCfg /\ IdleRun /\ IdleSmooth /\ IdleServer /\ IdleSegment /\ IdleMain

unchangedByPoly ==
    <<contourLen, max_points, pipelineCfg, runVars, smoothVars, serverVars, segVars,
      mainVars>>

\* lines 278-286
PolyStart ==
    /\ pc = "poly_start"
    /\ IF contourLen = 0
       THEN pc' = "poly_ret" /\ polygon' = <<>>
       ELSE pc' = "poly_loop" /\ polygon' = polygon
    /\ UNCHANGED <<attempts, epsilonExp, approxLen, unchangedByPoly>>

\* lines 287-291: one iteration of the loop
PolyAttempt ==
    /\ pc = "poly_loop"
    /\ attempts < PolygonAttempts
    /\ \E n \in 1 .. contourLen :
        /\ approxLen' = n
        /\ attempts' = attempts + 1
        /\ IF Accepted(n, max_points)
           THEN pc' = "poly_out" /\ epsilonExp' = epsilonExp
           ELSE /\ epsilonExp' = epsilonExp + 1
                /\ pc' = IF attempts + 1 = PolygonAttempts THEN "poly_out" ELSE "poly_loop"
    /\ UNCHANGED <<polygon, unchangedByPoly>>

\* lines 293-298
PolyReturn ==
    /\ pc = "poly_out"
    /\ polygon' = ToPolygon(Squeeze(ApproxPoints(approxLen)))
    /\ pc' = "poly_ret"
    /\ UNCHANGED <<attempts, epsilonExp, approxLen, unchangedByPoly>>

NextPoly == PolyStart \/ PolyAttempt \/ PolyReturn

SpecPoly == InitPoly /\ [][NextPoly]_vars

----------------------------------------------------------------------------
(* preview_server.main: SpecServer *)

\* a line of stdin: its content once stripped, and whether it came with
\* surrounding white space
LineBodies == {"", "QUIT", "query", "malformed", "no_xy"}
Lines == [body : LineBodies, padded : BOOLEAN]
Strip(line) == line.body

InitServer ==
    /\ input \in UNION {[1 .. n -> Lines] : n \in 0 .. MaxLines}
    /\ rd = 0 /\ cur = "" /\ responses = <<>>
    /\ pc = "srv_start"
    \* the frame named by argv[1]; readable[0]: cv2.imread can decode it
    /\ total_frames = 1
    /\ readable \in [{0} -> BOOLEAN]
    /\ frame0 = [x \in Pixels |-> 0] /\ comp = <<0, 0>> /\ click_points = <<>>
    /\ IdleRun /\ IdleSmooth /\ IdlePoly /\ IdleSegment /\ IdleMain

unchangedByServer ==
    <<input, pipelineCfg, vidLoad, segSource, propSource, initial_masks, all_masks,
      fi, prev_gray, flowLog, todo, frame_idx, frames, prev_centroid, results,
      written, stdout, smoothVars, polyVars, segVars, mainVars>>

\* lines 26-50
ServerStart ==
    /\ pc = "srv_start"
    /\ \E argOK, fileOK \in BOOLEAN :
         IF ~argOK \/ ~fileOK
         THEN /\ responses' = Append(responses, [kind |-> "ERROR", line |-> 0])
              /\ pc' = "srv_exit"
              /\ imgLoad' = imgLoad
         ELSE \E outcome \in LoadOutcomes :
              /\ imgLoad' = outcome
              /\ IF PredictorOf(outcome) = "None" \/ ~readable[0]
                 THEN /\ responses' = Append(responses, [kind |-> "ERROR", line |-> 0])
                      /\ pc' = "srv_exit"
                 ELSE /\ responses' = Append(responses, [kind |-> "READY", line |-> 0])
                      /\ pc' = "srv_read"
    /\ UNCHANGED <<rd, cur, unchangedByServer>>

\* lines 53-58: the next line, or the end of stdin
ServerRead ==
    /\ pc = "srv_read"
    /\ IF rd = Len(input)
       THEN pc' = "srv_exit" /\ UNCHANGED <<rd, cur>>
       ELSE /\ rd' = rd + 1
            /\ IF Strip(input[rd + 1]) = "" THEN pc' = "srv_read" /\ cur' = cur
               ELSE IF Strip(input[rd + 1]) = "QUIT" THEN pc' = "srv_exit" /\ cur' = cur
               ELSE pc' = "srv_handle" /\ cur' = Strip(input[rd + 1])
    /\ UNCHANGED <<responses, imgLoad, unchangedByServer>>

\* lines 60-108: what handling the line prints; predictOK: predictor.predict
\* and the geometry after it did not raise
RespondMutant(out, body, predictOK, n) ==
    IF body = "query" /\ predictOK THEN Append(out, [kind |-> "result", line |-> n]) ELSE out
Respond(out, body, predictOK, n) ==
    IF body = "query" /\ predictOK THEN Append(out, [kind |-> "result", line |-> n])
    ELSE Append(out, [kind |-> "error", line |-> n])

ServerHandle ==
    /\ pc = "srv_handle"
    /\ \E predictOK \in BOOLEAN : responses' = Respond(responses, cur, predictOK, rd)
    /\ pc' = "srv_read"
    /\ UNCHANGED <<rd, cur, imgLoad, unchangedByServer>>

NextServer == ServerStart \/ ServerRead \/ ServerHandle

SpecServer == InitServer /\ [][NextServer]_vars

----------------------------------------------------------------------------
(* segment_single_frame on its own: SpecSegment *)

SegPixels == 0 .. (SegW - 1)

\* the first frames: a dark area left of a bright one, the edge at every
\* position, and a ramp
SegRows ==
    {[x \in SegPixels |-> IF x < k THEN 40 ELSE 200] : k \in 0 .. SegW}
        \cup {[x \in SegPixels |-> 20 * x]}

\* click points in and out of the frame
SegPoints ==
    {[x |-> -2, y |-> 0, object_id |-> 0],
     [x |-> 1, y |-> -1, object_id |-> 0],
     [x |-> SegW - 1, y |-> 0, object_id |-> 0],
     [x |-> SegW + 1, y |-> 3, object_id |-> 1],
     [x |-> 0, y |-> 0, object_id |-> 1],
     [x |-> SegW - 2, y |-> 5, object_id |-> 1]}

SegClickSeqs == UNION {[1 .. n -> SegPoints] : n \in 0 .. MaxClicks}

InitSegment ==
    /\ total_frames = 1
    /\ readable = [i \in {0} |-> TRUE]
    /\ frame0 \in SegRows
    /\ comp = <<0, 0>>
    /\ click_points \in SegClickSeqs
    /\ pc = "seg_start"
    /\ IdleRun /\ IdleSmooth /\ IdlePoly /\ IdleServer /\ IdleSegment /\ IdleMain

unchangedBySegment ==
    <<pipelineCfg, vidLoad, propSource, all_masks, fi, prev_gray, flowLog, todo,
      frame_idx, frames, prev_centroid, results, written, stdout, smoothVars,
      polyVars, serverVars, mainVars>>

\* tracker.py lines 116-121: which branch the call takes
SegBegin ==
    /\ pc = "seg_start"
    /\ \E outcome \in LoadOutcomes :
         /\ imgLoad' = outcome
         /\ segSource' = IF PredictorOf(outcome) # "None" THEN "sam2" ELSE "fallback"
    /\ pc' = "seg_loop"
    /\ UNCHANGED <<initial_masks, segVars, unchangedBySegment>>

\* one iteration of `for pt in click_points`, lines 123-138 or 332-353;
\* cv2.floodFill raises for a seed outside the image
SegPoint ==
    /\ pc = "seg_loop"
    /\ Len(grown) < Len(click_points)
    /\ LET pt == click_points[Len(grown) + 1]
           seed == <<SeedOf(frame0, pt), SeedYOf(pt)>>
       IN IF segSource = "sam2"
          THEN /\ \E mask \in SamSegMasks(pt) :
                    /\ grown' = Append(grown, mask)
                    /\ initial_masks' = AssignKey(initial_masks, pt.object_id, mask)
               /\ UNCHANGED <<pc, seeds>>
          ELSE /\ seeds' = Append(seeds, seed)
               /\ IF seed[1] \in DOMAIN frame0 /\ seed[2] \in 0 .. (FrameH - 1)
                  THEN /\ grown' = Append(grown, FallbackMaskOf(frame0, pt))
                       /\ initial_masks' =
                            AssignKey(initial_masks, pt.object_id, FallbackMaskOf(frame0, pt))
                       /\ pc' = pc
                  ELSE /\ pc' = "failed"
                       /\ UNCHANGED <<grown, initial_masks>>
    /\ UNCHANGED <<imgLoad, segSource, unchangedBySegment>>

\* `return masks`
SegReturn ==
    /\ pc = "seg_loop"
    /\ Len(grown) = Len(click_points)
    /\ pc' = "seg_ret"
    /\ UNCHANGED <<imgLoad, segSource, initial_masks, segVars, unchangedBySegment>>

NextSegment == SegBegin \/ SegPoint \/ SegReturn

SpecSegment == InitSegment /\ [][NextSegment]_vars

----------------------------------------------------------------------------
(* supertracery.main, both modes: SpecMain *)

\* what main finds on its command line: no argument, an argument that is not
\* JSON, a mode it does not know, or one of its two modes
MainArgs == {"no_argv", "bad_json", "unknown_mode", "segment_and_track", "segment_only"}

\* the runs of main are checked on shorter inputs than the pipeline alone
InitMain ==
    /\ total_frames \in 0 .. MainMaxFrames
    /\ readable \in [0 .. (total_frames - 1) -> BOOLEAN]
    /\ frame0 \in Rows
    /\ comp \in Canvases
    /\ click_points \in {[k \in 1 .. n |-> ClickAt(k)] : n \in 0 .. MainMaxClicks}
    /\ pc = "main"
    /\ IdleMain /\ IdleRun /\ IdleSmooth /\ IdlePoly /\ IdleServer /\ IdleSegment

\* what the part of a run before propagation leaves alone
propVars ==
    <<vidLoad, propSource, all_masks, fi, prev_gray, flowLog, todo, frame_idx,
      frames, prev_centroid, results, written>>
unchangedByMain == <<pipelineCfg, smoothVars, polyVars, serverVars, segVars, propVars>>

\* main lines 156-175, and the first lines of the function it calls (40-48,
\* 130-134); entryOK: the config has the keys read there and the output
\* directory can be made, otherwise they raise
MainDispatch ==
    /\ pc = "main"
    /\ \E arg \in MainArgs, entryOK \in BOOLEAN :
         IF arg \in {"no_argv", "bad_json", "unknown_mode"}
         THEN /\ stdout' = Append(stdout, ErrorLine)
              /\ pc' = "exited"
              /\ mode' = mode
         ELSE /\ mode' = arg
              /\ IF ~entryOK THEN Raise
                 ELSE /\ pc' = IF arg = "segment_only" THEN "so_start" ELSE "start"
                      /\ stdout' = stdout
    /\ UNCHANGED <<saved, imgLoad, segSource, initial_masks, unchangedByMain>>

\* run_segment_only lines 136-139
SoLoadFrames ==
    /\ pc = "so_start"
    /\ IF total_frames = 0
       THEN pc' = "returned" /\ stdout' = Append(stdout, ErrorLine)
       ELSE pc' = "so_segment" /\ stdout' = stdout
    /\ UNCHANGED <<mainVars, imgLoad, segSource, initial_masks, unchangedByMain>>

\* line 141 and segment_single_frame
SoSegment ==
    /\ pc = "so_segment"
    /\ \E outcome \in LoadOutcomes :
        /\ imgLoad' = outcome
        /\ IF ~readable[0]
           THEN Raise /\ UNCHANGED <<segSource, initial_masks>>
           ELSE \E best \in SamBest(click_points) :
                  LET sam == PredictorOf(outcome) # "None"
                  IN /\ segSource' = IF sam THEN "sam2" ELSE "fallback"
                     /\ initial_masks' =
                          IF sam THEN SamSegmentLoop(EmptyDict, click_points, best, 1)
                          ELSE FallbackSegment(frame0, click_points)
                     /\ pc' = "so_save"
                     /\ stdout' = stdout
    /\ UNCHANGED <<mainVars, unchangedByMain>>

\* lines 143-151: the mask previews, then DONE
SoSave ==
    /\ pc = "so_save"
    /\ saved' = DOMAIN initial_masks
    /\ stdout' = Append(stdout, DoneLine)
    /\ pc' = "done"
    /\ UNCHANGED <<mode, imgLoad, segSource, initial_masks, unchangedByMain>>

NextMain ==
    \/ MainDispatch
    \/ SoLoadFrames
    \/ SoSegment
    \/ SoSave
    \/ Next

\* one thread of control: a run that can take a step takes it
SpecMain == InitMain /\ [][NextMain]_vars /\ WF_vars(NextMain)

----------------------------------------------------------------------------
(* Properties of the batch pipeline, checked under Spec *)

Failed(outcome) == outcome \in {"import_error", "both_failed"}
Absent(o, i) == ~all_masks[o][i].present
FrameIdxs == 0 .. (total_frames - 1)

\* C1: when the run ends with DONE, the result holds one track per object,
\* every track has exactly total_frames entries and the k-th entry carries
\* frame_index k, whatever masks were absent.
C1_TrackCompleteness ==
    pc = "done" =>
        /\ Len(results) = Cardinality(DOMAIN all_masks)
        /\ \A r \in 1 .. Len(results) :
            /\ Len(results[r].frames) = total_frames
            /\ \A k \in 1 .. Len(results[r].frames) :
                 results[r].frames[k].frame_index = k - 1

C1_Witness ==
    /\ pc = "done"
    /\ Len(results) = 2
    /\ total_frames = MaxFrames
    /\ \E r \in 1 .. Len(results) : \E i, j \in FrameIdxs :
         /\ Absent(results[r].object_id, i)
         /\ ~Absent(results[r].object_id, j)

\* C2: with the first frame readable, an unreadable later frame never aborts
\* the run (the run does not end in the exception handler).
C2_BadFrameAbsorbed ==
    (total_frames > 0 /\ readable[0]) => pc # "failed"

\* C4: in fallback propagation, once step i is done for an unreadable frame i,
\* every object's mask at i is its mask at i-1 and no flow was computed in
\* step i.
C4_HoldLastGood ==
    propSource = "fallback" =>
        \A i \in 1 .. (total_frames - 1) :
            (~readable[i] /\ i < fi) =>
                /\ \A o \in DOMAIN all_masks : all_masks[o][i] = all_masks[o][i - 1]
                /\ \A e \in flowLog : e.step # i

C4_Witness ==
    /\ propSource = "fallback"
    /\ \E i \in 2 .. (total_frames - 1) :
         /\ ~readable[i] /\ i < fi
         /\ \E o \in DOMAIN all_masks :
              /\ all_masks[o][i - 1] # all_masks[o][0]
              /\ all_masks[o][i] = all_masks[o][i - 1]

\* C6: a predictor whose load failed (import error, or both checkpoints
\* failed) makes its stage take the deterministic fallback, and with both
\* predictors unavailable and every frame readable the run does not abort.
C6_FallbackOnUnavailable ==
    /\ (Failed(imgLoad) /\ total_frames > 0 /\ readable[0]) => segSource = "fallback"
    /\ Failed(imgLoad) => segSource # "sam2"
    /\ Failed(vidLoad) => propSource = "fallback"
    /\ (Failed(imgLoad) /\ Failed(vidLoad) /\ \A i \in FrameIdxs : readable[i])
          => pc # "failed"

C6_Witness ==
    /\ imgLoad = "both_failed" /\ vidLoad = "import_error"
    /\ segSource = "fallback" /\ propSource = "fallback"
    /\ pc = "done" /\ total_frames = MaxFrames

IsDefaultExceptMotion(e) ==
    /\ e.centroid = <<comp[1] * 50, comp[2] * 50>>
    /\ e.bbox = <<0, 0, comp[1], comp[2]>>
    /\ e.polygon = <<>>
    /\ e.area = 0
    /\ e.avg_luma = 0
    /\ e.confidence[1] = 0

\* C7 as stated: in the final track every frame with an absent mask has the
\* default entry, motion vector (0,0) included.
C7_AbsentDefaultFinal ==
    \A r \in 1 .. Len(results) : \A k \in 1 .. Len(results[r].frames) :
        Absent(results[r].object_id, k - 1) =>
            /\ IsDefaultExceptMotion(results[r].frames[k])
            /\ results[r].frames[k].motion_vector = <<0, 0>>

\* C7 amended: in the final track every frame with an absent mask has the
\* default centroid, bbox, polygon, area, avg_luma and confidence; its motion
\* vector is (0,0) when it is appended, and still (0,0) in the final track when
\* the track is shorter than the smoothing window.
C7_AbsentDefault ==
    /\ \A r \in 1 .. Len(results) : \A k \in 1 .. Len(results[r].frames) :
         Absent(results[r].object_id, k - 1) =>
            /\ IsDefaultExceptMotion(results[r].frames[k])
            /\ total_frames < SmoothWindow => results[r].frames[k].motion_vector = <<0, 0>>
    /\ (pc = "analyze" /\ todo # <<>>) =>
         \A k \in 1 .. Len(frames) :
            Absent(Head(todo), k - 1) =>
               /\ IsDefaultExceptMotion(frames[k])
               /\ frames[k].motion_vector = <<0, 0>>

C7_Witness ==
    /\ pc = "done"
    /\ comp # <<0, 0>>
    /\ \E r \in 1 .. Len(results) : \E k \in 1 .. Len(results[r].frames) :
         /\ Absent(results[r].object_id, k - 1)
         /\ results[r].frames[k].motion_vector # <<0, 0>>

AllEntries ==
    UNION {{results[r].frames[k] : k \in 1 .. Len(results[r].frames)} : r \in 1 .. Len(results)}
      \cup {frames[k] : k \in 1 .. Len(frames)}

\* C8: every entry's confidence lies in [0, 1]; it is
\* min(1, area / max(1, comp_width * comp_height * 0.001)), which is 0 for the
\* default entry of an absent mask.
C8_ConfidenceClamp ==
    \A e \in AllEntries :
        /\ e.confidence[2] > 0
        /\ 0 <= e.confidence[1]
        /\ e.confidence[1] <= e.confidence[2]
        /\ e.confidence[1] * Max(1000, comp[1] * comp[2])
             = Min(e.area * 1000, Max(1000, comp[1] * comp[2])) * e.confidence[2]

C8_Witness ==
    /\ pc = "done"
    /\ \E e \in AllEntries : e.area * 1000 > Max(1000, comp[1] * comp[2])
    /\ \E e \in AllEntries : e.area > 0 /\ e.confidence[1] < e.confidence[2]

\* C11: in fallback propagation, as long as every frame up to index i was
\* readable and every flow field computed up to step i was zero at every
\* pixel, the mask of every object at index i is its initial mask.
C11_StaticIdentity ==
    propSource = "fallback" =>
        \A i \in 0 .. (total_frames - 1) :
            (/\ i < fi
             /\ \A j \in 1 .. i : readable[j]
             /\ \A e \in flowLog : e.step <= i => e.still) =>
                \A o \in DOMAIN all_masks : all_masks[o][i] = initial_masks[o]

C11_Witness ==
    /\ propSource = "fallback"
    /\ pc = "done"
    /\ total_frames = MaxFrames
    /\ Cardinality(flowLog) = MaxFrames - 1
    /\ \A e \in flowLog : e.still
    /\ \E o \in DOMAIN all_masks :
         /\ initial_masks[o].px # {}
         /\ initial_masks[o].px # Pixels
         /\ all_masks[o][MaxFrames - 1] = initial_masks[o]

\* C15: when frame discovery finds no frames, or segmentation of the first
\* frame returns no mask, the run prints ERROR and stops: no later stage
\* (segmentation after "no frames", propagation, analysis, writing) runs and
\* DONE is not printed.
C15_StructuralAbort ==
    /\ (total_frames = 0 /\ pc # "start") => (pc = "returned" /\ segSource = "none")
    /\ (segSource # "none" /\ DOMAIN initial_masks = {}) => pc = "returned"
    /\ pc = "returned" =>
         /\ total_frames = 0 \/ (segSource # "none" /\ DOMAIN initial_masks = {})
         /\ stdout = <<ErrorLine>>
         /\ propSource = "none" /\ vidLoad = "unloaded" /\ all_masks = EmptyDict
         /\ todo = <<>> /\ frames = <<>> /\ results = <<>>
         /\ ~written

C15_Witness ==
    /\ pc = "returned"
    /\ total_frames > 0
    /\ segSource # "none"
    /\ DOMAIN initial_masks = {}
    /\ stdout = <<ErrorLine>>

\* C16: during fallback propagation the PROGRESS values printed are strictly
\* increasing, and PROGRESS:n (the signal of frame index n - 1) is on the
\* output only once the mask of every object at index n - 1 has been set.
C16_ProgressAfterFinalization ==
    (propSource = "fallback" /\ pc \in {"fb_progress", "fb_read"}) =>
        /\ \A j, k \in 1 .. Len(stdout) : j < k => stdout[j].n < stdout[k].n
        /\ \A k \in 1 .. Len(stdout) :
             stdout[k].kind = "PROGRESS" =>
                \A o \in DOMAIN all_masks : all_masks[o][stdout[k].n - 1].present

\* C17 as stated: every flow field of fallback propagation is computed from
\* frame i - 1 and frame i, also after an unreadable frame was held.
C17_ConsecutiveFrameFlow ==
    \A e \in flowLog : e.prev = e.step - 1 /\ e.curr = e.step

\* C17, amended: at every step i >= 1 whose frame is readable, exactly one
\* flow field is computed, from the most recent readable frame before i and
\* frame i; that frame is i - 1 whenever frame i - 1 is readable.
C17_FlowFromLastReadable ==
    propSource = "fallback" =>
        /\ \A e \in flowLog :
             /\ e.curr = e.step
             /\ e.prev \in 0 .. (e.step - 1)
             /\ readable[e.prev]
             /\ \A j \in (e.prev + 1) .. (e.step - 1) : ~readable[j]
        /\ \A i \in 1 .. (fi - 1) :
             Cardinality({e \in flowLog : e.step = i}) = (IF readable[i] THEN 1 ELSE 0)

C17_Witness ==
    /\ propSource = "fallback"
    /\ total_frames > 2
    /\ fi = total_frames
    /\ ~readable[1]
    /\ \E e \in flowLog : e.step = 2 /\ e.prev = 0 /\ e.curr = 2

\* frames[k] is the entry of frame index k - 1 of the object being analysed
PresentAt(k) == all_masks[Head(todo)][k - 1].present
EarlierPresent(k) == {j \in 1 .. (k - 1) : PresentAt(j)}

\* C18: before smoothing, the frames of an object are analysed in increasing
\* index order; the first frame with a present mask has motion vector (0, 0),
\* and every later frame with a present mask has its centroid minus the
\* centroid of the most recent earlier frame with a present mask; frames
\* with an absent mask neither update nor reset the previous centroid.
C18_MotionChaining ==
    (pc = "analyze" /\ todo # <<>>) =>
        /\ Len(frames) = frame_idx
        /\ \A k \in 1 .. Len(frames) :
             /\ frames[k].frame_index = k - 1
             /\ PresentAt(k) =>
                  frames[k].motion_vector =
                     IF EarlierPresent(k) = {} THEN <<0, 0>>
                     ELSE LET j == MaxOf(EarlierPresent(k))
                          IN <<frames[k].centroid[1] - frames[j].centroid[1],
                               frames[k].centroid[2] - frames[j].centroid[2]>>
        /\ prev_centroid =
             IF EarlierPresent(frame_idx + 1) = {} THEN [some |-> FALSE, at |-> <<0, 0>>]
             ELSE [some |-> TRUE,
                   at |-> frames[MaxOf(EarlierPresent(frame_idx + 1))].centroid]

C18_Witness ==
    /\ pc = "analyze" /\ todo # <<>>
    /\ Len(frames) = 3
    /\ PresentAt(1) /\ ~PresentAt(2) /\ PresentAt(3)
    /\ frames[3].motion_vector # <<0, 0>>
    /\ frames[3].motion_vector[1] = frames[3].centroid[1] - frames[1].centroid[1]

\* C19: in one run, segmentation and propagation are performed by the same
\* mask source, whatever the outcomes of the model loads.
C19_SingleMaskSource ==
    propSource # "none" => propSource = segSource

\* C20: for a run of at least one frame and any pattern of unreadable frames
\* after the first, fallback propagation gives every object a sequence of
\* total_frames masks that are all present; every step finds the previous
\* mask present, so its "previous mask is None" branch is never taken.
C20_NoAbsentFromFallback ==
    propSource = "fallback" =>
        /\ DOMAIN all_masks = DOMAIN initial_masks
        /\ \A o \in DOMAIN all_masks :
             /\ DOMAIN all_masks[o] = 0 .. (total_frames - 1)
             /\ \A i \in 0 .. (fi - 1) : all_masks[o][i].present
        /\ pc \in {"fb_progress", "fb_read"} => (fi >= 1 /\ fi < total_frames)
        /\ pc \in {"analyze", "done", "failed"} => fi = total_frames

C20_Witness ==
    /\ propSource = "fallback"
    /\ pc = "analyze"
    /\ total_frames = MaxFrames
    /\ \E i \in 1 .. (total_frames - 1) : ~readable[i]
    /\ \E i \in 1 .. (total_frames - 1) : readable[i]
    /\ \E o \in DOMAIN all_masks :
         /\ \A i \in 0 .. (total_frames - 1) : all_masks[o][i].present
         /\ all_masks[o][total_frames - 1] # initial_masks[o]

----------------------------------------------------------------------------
(* Properties of segment_single_frame, checked under SpecSegment *)

\* the index of the last click point of object id
LastPointOf(id) ==
    CHOOSE k \in 1 .. Len(click_points) :
        /\ click_points[k].object_id = id
        /\ \A j \in (k + 1) .. Len(click_points) : click_points[j].object_id # id

PointIds == {click_points[k].object_id : k \in 1 .. Len(click_points)}

\* C12: the fallback segmentation seeds every point, whatever its integer
\* coordinates, at (min(max(x, 0), W - 1), min(max(y, 0), H - 1)); it never
\* fails on a point, and it returns a mask for the object id of every point.
C12_SeedClamping ==
    segSource = "fallback" =>
        /\ pc # "failed"
        /\ \A k \in 1 .. Len(seeds) :
             LET pt == click_points[k]
             IN /\ seeds[k][1] = (IF pt.x < 0 THEN 0
                                  ELSE IF pt.x > SegW - 1 THEN SegW - 1 ELSE pt.x)
                /\ seeds[k][2] = (IF pt.y < 0 THEN 0
                                  ELSE IF pt.y > FrameH - 1 THEN FrameH - 1 ELSE pt.y)
        /\ pc = "seg_ret" =>
             /\ Len(seeds) = Len(click_points)
             /\ \A k \in 1 .. Len(click_points) :
                  /\ click_points[k].object_id \in DOMAIN initial_masks
                  /\ initial_masks[click_points[k].object_id].present

C12_Witness ==
    /\ segSource = "fallback"
    /\ pc = "seg_ret"
    /\ \E k \in 1 .. Len(click_points) : click_points[k].x < 0 /\ seeds[k][1] = 0
    /\ \E k \in 1 .. Len(click_points) :
         /\ click_points[k].x >= SegW /\ click_points[k].y >= FrameH
         /\ seeds[k] = <<SegW - 1, FrameH - 1>>
         /\ initial_masks[click_points[k].object_id].px # {}

\* C13: the segmentation result has exactly one mask per distinct object id
\* of the click points, and the mask of an id is the one grown from the last
\* point of that id.
C13_LastWins ==
    pc = "seg_ret" =>
        /\ DOMAIN initial_masks = PointIds
        /\ \A id \in PointIds : initial_masks[id] = grown[LastPointOf(id)]
        /\ segSource = "fallback" =>
             \A id \in PointIds :
                initial_masks[id] = FallbackMaskOf(frame0, click_points[LastPointOf(id)])

C13_Witness ==
    /\ segSource = "fallback"
    /\ pc = "seg_ret"
    /\ Len(click_points) = 2
    /\ click_points[1].object_id = click_points[2].object_id
    /\ grown[1] # grown[2]
    /\ initial_masks[click_points[1].object_id] = grown[2]

----------------------------------------------------------------------------
(* Properties of smooth_motion_vectors, checked under SpecSmooth *)

WindowStart(i, w) == Max(0, i - (w \div 2))
WindowEnd(i, n, w) == Min(n, i + (w \div 2) + 1)

\* C3: with len(track) >= window, the motion vector returned at every index
\* i is the rounded average of the INPUT's motion vectors over the window
\* [max(0, i - window//2), min(n, i + window//2 + 1)).
C3_AveragesOfOriginal ==
    (pc = "smooth_ret" /\ Len(smoothIn) >= smoothWin) =>
        \A i \in 0 .. (Len(smoothIn) - 1) : \A c \in {1, 2} :
            smoothOut[i + 1].motion_vector[c] \in
                RoundSet(WindowSum(smoothIn, WindowStart(i, smoothWin),
                                   WindowEnd(i, Len(smoothIn), smoothWin), c),
                         WindowEnd(i, Len(smoothIn), smoothWin) - WindowStart(i, smoothWin))

NonMotion(e) == [e EXCEPT !.motion_vector = <<0, 0>>]

\* C9: the list returned has the length of the input; a list shorter than
\* the window is returned as it is; every field other than motion_vector of
\* every entry is the input's.
C9_SmoothPassThrough ==
    pc = "smooth_ret" =>
        /\ Len(smoothOut) = Len(smoothIn)
        /\ Len(smoothIn) < smoothWin => smoothOut = smoothIn
        /\ \A k \in 1 .. Len(smoothIn) : NonMotion(smoothOut[k]) = NonMotion(smoothIn[k])

C9_Witness ==
    /\ pc = "smooth_ret"
    /\ Len(smoothIn) = MaxTrackLen
    /\ smoothWin = SmoothWindow
    /\ \A k \in 1 .. Len(smoothIn) : smoothOut[k].motion_vector # smoothIn[k].motion_vector

----------------------------------------------------------------------------
(* Properties of _mask_to_polygon, checked under SpecPoly *)

\* C10: no contour gives the empty polygon; otherwise an attempt is made only
\* while fewer than 20 were made and the previous one was rejected (more than
\* max_points vertices), the k-th attempt uses epsilon 2.0 * 1.5^(k-1), and the
\* polygon returned is the latest approximation: at most max_points vertices,
\* unless all 20 attempts exceeded max_points.
C10_PolygonCap ==
    /\ (pc = "poly_ret" /\ contourLen = 0) => (polygon = <<>> /\ attempts = 0)
    /\ attempts <= PolygonAttempts
    /\ (pc = "poly_loop" /\ attempts > 0) => approxLen > max_points
    /\ pc = "poly_loop" => epsilonExp = attempts
    /\ pc = "poly_out" => (approxLen <= max_points \/ attempts = PolygonAttempts)
    /\ (pc = "poly_ret" /\ contourLen > 0) =>
          /\ Len(polygon) = approxLen
          /\ Len(polygon) <= max_points \/ (attempts = PolygonAttempts /\ epsilonExp = PolygonAttempts)

C10_Witness ==
    /\ pc = "poly_ret"
    /\ attempts = PolygonAttempts
    /\ Len(polygon) > max_points

----------------------------------------------------------------------------
(* Properties of the preview server, checked under SpecServer *)

ResponsesTo(n) == {k \in 1 .. Len(responses) : responses[k].line = n}
Ready == \E k \in 1 .. Len(responses) : responses[k].kind = "READY"

\* C5 as stated: whenever the server is about to read, every line read so far
\* has been answered by exactly one response line.
C5_OneResponsePerLine ==
    pc = "srv_read" => \A n \in 1 .. rd : Cardinality(ResponsesTo(n)) = 1

\* C5 amended: whenever the server is about to read, every line read so far
\* that is not blank after stripping has been answered by exactly one result
\* or error line, and every blank line by none; after READY the session ends
\* only on a QUIT line or at the end of stdin.
C5_OneResponsePerNonBlankLine ==
    /\ pc = "srv_read" =>
         \A n \in 1 .. rd :
            /\ Strip(input[n]) # "" =>
                 /\ Cardinality(ResponsesTo(n)) = 1
                 /\ \A k \in ResponsesTo(n) : responses[k].kind \in {"result", "error"}
            /\ Strip(input[n]) = "" => ResponsesTo(n) = {}
    /\ (pc = "srv_exit" /\ Ready) =>
         \/ rd = Len(input)
         \/ (rd > 0 /\ Strip(input[rd]) = "QUIT")

C5_Witness ==
    /\ pc = "srv_read"
    /\ rd = MaxLines
    /\ \E n \in 1 .. rd : Strip(input[n]) = ""
    /\ \E k \in 1 .. Len(responses) : responses[k].kind = "error"
    /\ \E k \in 1 .. Len(responses) : responses[k].kind = "result"

\* C14: when the learned image model cannot be loaded and the frame can be
\* read, the preview session still starts: it prints READY (and goes on to
\* answer queries) instead of exiting.
C14_ServesWithoutModel ==
    (Failed(imgLoad) /\ readable[0] /\ pc # "srv_start") =>
        /\ Ready
        /\ \A k \in 1 .. Len(responses) : responses[k].kind # "ERROR"

----------------------------------------------------------------------------
(* Properties of supertracery.main, checked under SpecMain *)

TerminalLines == {k \in 1 .. Len(stdout) : stdout[k].kind \in {"DONE", "ERROR"}}
DoneLines == {k \in 1 .. Len(stdout) : stdout[k].kind = "DONE"}
Ended == pc \in {"done", "failed", "returned", "exited"}

\* the run has ended exactly when one terminal line is on the output, and
\* that line is the last one
OneTerminalSignal ==
    /\ Cardinality(TerminalLines) = (IF Ended THEN 1 ELSE 0)
    /\ TerminalLines \subseteq {Len(stdout)}
    /\ pc = "done" <=> DoneLines # {}

\* how far a run has come: the stage of main it is in, then the position of
\* the propagation loop, then the objects and frames analysed
Stage ==
    CASE pc = "main" -> 0
      [] pc \in {"start", "so_start"} -> 1
      [] pc \in {"segment", "so_segment"} -> 2
      [] pc \in {"propagate", "so_save"} -> 3
      [] pc \in {"sam_propagate", "fb_progress", "fb_read"} -> 4
      [] pc = "analyze" -> 5
      [] OTHER -> 6
Position == <<Stage, 2 * fi + (IF pc = "fb_read" THEN 1 ELSE 0), Len(results), frame_idx>>

RECURSIVE LexLess(_, _)
LexLess(a, b) ==
    /\ a # <<>>
    /\ \/ Head(a) < Head(b)
       \/ Head(a) = Head(b) /\ LexLess(Tail(a), Tail(b))

PositionBounded ==
    /\ fi \in 0 .. total_frames
    /\ frame_idx \in 0 .. total_frames
    /\ Len(results) <= Cardinality(DOMAIN initial_masks)

\* C21 as stated, its safety part: one terminal line, and DONE only after
\* the results document has been written.
C21_DoneAfterResults ==
    /\ OneTerminalSignal
    /\ DoneLines # {} => written

\* C21, amended: every run of main ends, with exactly one terminal line, DONE
\* or ERROR, as its last line; in mode segment_and_track DONE follows the
\* writing of the results document with one track per object, in mode
\* segment_only it follows the saving of one mask preview per object and no
\* results document is written.  That every run ends is stated by its parts:
\* a run that has not ended can take a step (and takes it, SpecMain being
\* fair), and every step moves the run to a later position, of which there
\* are finitely many.
C21_ExclusiveOutcome ==
    /\ [](/\ OneTerminalSignal
          /\ (DoneLines # {} /\ mode = "segment_and_track") =>
                (written /\ Len(results) = Cardinality(DOMAIN all_masks))
          /\ (DoneLines # {} /\ mode = "segment_only") =>
                (~written /\ saved = DOMAIN initial_masks)
          /\ DoneLines # {} => mode \in {"segment_and_track", "segment_only"}
          /\ ~Ended => ENABLED NextMain
          /\ PositionBounded)
    /\ [][LexLess(Position, Position')]_vars

C21_Witness ==
    /\ pc = "done"
    /\ mode = "segment_only"
    /\ saved # {}
    /\ ~written
    /\ stdout = <<DoneLine>>

====
